---------------------------- MODULE Spec2Model ----------------------------
(***************************************************************************)
(* gauntletBot (src/main.go): a UDP game client with two threads.          *)
(*   readLoop   decodes the server's datagrams into the shared GameState   *)
(*   writeLoop  the planner: picks a target, moves, bounces, shoots and    *)
(*              expires stale items, once per tick                         *)
(* The threads share GameState.  Walls, Ammo and Food are written under    *)
(* wallMutex, ammoMutex and foodMutex; every other field is read and       *)
(* written without a lock, so each such access is a step of its own here.  *)
(* Time is counted in whole seconds.                                       *)
(***************************************************************************)
EXTENDS Integers, Sequences, FiniteSets, TLC

(***************************************************************************)
(* Bounds of the model.                                                    *)
(***************************************************************************)
\* datagrams the server sends in one run
MaxMsgs == 2
\* last value of the clock in a run of the two loops
MaxTime == 1
\* the line-of-sight cases: points with coordinates in -GridMax..GridMax
GridMax == 8
\* the bounce cases: points with coordinates in 0..MoveMax
MoveMax == 3
\* the expiry cases: clock values 0..ExpiryMaxTime, collections of up to MaxItems
ExpiryMaxTime == 7
MaxItems == 2
\* the facing cases: places with coordinates 10 * (-FaceMax..FaceMax)
FaceMax == 1

(***************************************************************************)
(* Program constants.                                                      *)
(***************************************************************************)
shotDelay == 2
\* half the side of a wall tile (wallX - 4 .. wallX + 4)
HalfTile == 4
\* newDirection's jitter tolerance
sensitivity == 1
\* expireItems keeps what was seen less than 5 s ago
ExpireAfter == 5
\* shoot wants a sighting less than 1 s old
EnemyFresh == 1
\* moveToDir's stride
Stride == 10
\* the zero time.Time of a SawEnemy that was never set: long before the clock starts
ZeroTime == -1000

Nil == <<>>
Ref(v) == <<v>>
Deref(p) == p[1]

Loc(x, y) == [X |-> x, Y |-> y]
Item(l, t) == [Loc |-> l, Seen |-> t]
ZeroPlayer == [Name |-> "", Loc |-> Loc(0, 0), Health |-> 0, Ammo |-> 0, HasKey |-> FALSE]

colorMap(name) ==
    CASE name = "warrior" -> "red"
      [] name = "valkyrie" -> "blue"
      [] name = "elf" -> "green"
      [] name = "wizard" -> "yellow"
      [] OTHER -> ""

Abs(n) == IF n < 0 THEN -n ELSE n
Min(a, b) == IF a < b THEN a ELSE b
Max(a, b) == IF a > b THEN a ELSE b

(***************************************************************************)
(* int(float64(a) / float64(b)): Go's conversion truncates toward zero.    *)
(* The operands of the model are small, so the float quotient is off the   *)
(* exact one by far less than its distance to the next integer.            *)
(***************************************************************************)
TruncDiv(a, b) ==
    LET q == Abs(a) \div Abs(b)
    IN  IF (a < 0) # (b < 0) THEN -q ELSE q

(***************************************************************************)
(* Decoding.  A datagram is "type:p0,p1,...": Type, whether it holds a     *)
(* ':' at all, and the parameter strings.  strings.Split never returns an  *)
(* empty list, so a datagram with nothing after the ':' has the one        *)
(* parameter "".  The numerals the model's server uses:                    *)
(***************************************************************************)
IntLit ==
    [s \in {"0", "1", "2", "3", "5", "10", "20", "30"} |->
        CASE s = "0" -> 0 [] s = "1" -> 1 [] s = "2" -> 2 [] s = "3" -> 3
          [] s = "5" -> 5 [] s = "10" -> 10 [] s = "20" -> 20 [] s = "30" -> 30]

\* decimal numerals, in tenths
DecLit ==
    [s \in {"0.0", "0.5", "10.0", "20.5", "20.0"} |->
        CASE s = "0.0" -> 0 [] s = "0.5" -> 5 [] s = "10.0" -> 100
          [] s = "20.5" -> 205 [] s = "20.0" -> 200]

\* strconv.Atoi: the value, or 0 with an error that readLoop drops
Atoi(s) == IF s \in DOMAIN IntLit THEN IntLit[s] ELSE 0

\* int(f) of f, _ := strconv.ParseFloat(s, 32)
ParseFloatInt(s) ==
    IF s \in DOMAIN IntLit THEN IntLit[s]
    ELSE IF s \in DOMAIN DecLit THEN TruncDiv(DecLit[s], 10)
    ELSE 0

\* strings.HasPrefix(s, "True")
HasPrefixTrue(s) == s \in {"True", "True\n"}

Msg(type, params) == [Type |-> type, Colon |-> TRUE, Params |-> params]

PlayerUpdates ==
    { Msg("playerupdate", <<"20.5", "0.0", "3", "2", "True">>),
      Msg("playerupdate", <<"0.5", "10.0", "1", "5", "False">>) }

Msgs ==
    PlayerUpdates \cup
    { Msg("playerjoined", <<"warrior", "1", "0", "0">>),
      Msg("exit", <<"20", "0">>),
      \* a non-numeric field, and a parameter list that is too short
      Msg("exit", <<"north", "20">>),
      Msg("exit", <<"20">>),
      Msg("nearbyitem", <<"redkey", "20", "20">>),
      \* the key of a player that has no name yet: colorMap[""] is ""
      Msg("nearbyitem", <<"key", "20", "20">>),
      Msg("nearbyitem", <<"ammo", "5", "5">>),
      Msg("nearbyitem", <<"food", "20", "0">>),
      Msg("nearbyplayer", <<"elf", "1", "20.0", "0.0">>),
      Msg("nearbywalls", <<"10", "0", "10", "20", "30">>),
      Msg("nearbyfloors", <<"0", "0">>),
      Msg("hello", <<"">>),
      [Type |-> "ping", Colon |-> FALSE, Params |-> <<"">>] }

(***************************************************************************)
(* Line of sight.                                                          *)
(***************************************************************************)
\* is the given point within the bounds created between p1 and p2?
isWithinBounds(point, p1, p2) ==
    /\ point.X >= Min(p1.X, p2.X)
    /\ point.X <= Max(p1.X, p2.X)
    /\ point.Y >= Min(p1.Y, p2.Y)
    /\ point.Y <= Max(p1.Y, p2.Y)

\* the crossing of the line player-item with the line y = wallY - 4
CrossTop(playerLoc, itemLoc, wallX, wallY) ==
    LET a1 == itemLoc.Y - playerLoc.Y
        b1 == playerLoc.X - itemLoc.X
        c1 == a1 * playerLoc.X + b1 * playerLoc.Y
        b2 == (wallX + HalfTile) - (wallX - HalfTile)
        c2 == b2 * (wallY - HalfTile)
        determinant == a1 * b2
    IN  Loc(TruncDiv(b2 * c1 - b1 * c2, determinant), TruncDiv(a1 * c2, determinant))

\* the crossing of the line player-item with the line x = wallX - 4
CrossLeft(playerLoc, itemLoc, wallX, wallY) ==
    LET a1 == itemLoc.Y - playerLoc.Y
        b1 == playerLoc.X - itemLoc.X
        c1 == a1 * playerLoc.X + b1 * playerLoc.Y
        a2 == (wallY - HalfTile) - (wallY + HalfTile)
        c2 == a2 * (wallX - HalfTile)
        determinant == 0 - a2 * b1
    IN  Loc(TruncDiv(0 - b1 * c2, determinant), TruncDiv(a1 * c2 - a2 * c1, determinant))

\* a variant that looks for the crossing only on the item's side of the player
intersectsAhead(playerLoc, itemLoc, wallX, wallY) ==
    LET wallCorner1 == Loc(wallX - HalfTile, wallY - HalfTile)
        wallCorner2 == Loc(wallX + HalfTile, wallY + HalfTile)
        a1 == itemLoc.Y - playerLoc.Y
        b1 == playerLoc.X - itemLoc.X
        b2 == (wallX + HalfTile) - (wallX - HalfTile)
        a2 == (wallY - HalfTile) - (wallY + HalfTile)
        hit(crossingPoint) ==
            /\ crossingPoint.X >= playerLoc.X /\ crossingPoint.X <= Max(playerLoc.X, itemLoc.X)
            /\ crossingPoint.Y >= playerLoc.Y /\ crossingPoint.Y <= Max(playerLoc.Y, itemLoc.Y)
            /\ isWithinBounds(crossingPoint, wallCorner1, wallCorner2)
    IN  \/ a1 * b2 # 0 /\ hit(CrossTop(playerLoc, itemLoc, wallX, wallY))
        \/ 0 - a2 * b1 # 0 /\ hit(CrossLeft(playerLoc, itemLoc, wallX, wallY))

\* does a given wall tile intersect the line between us and the item?
intersects(playerLoc, itemLoc, wallX, wallY) ==
    LET wallCorner1 == Loc(wallX - HalfTile, wallY - HalfTile)
        wallCorner2 == Loc(wallX + HalfTile, wallY + HalfTile)
        a1 == itemLoc.Y - playerLoc.Y
        b1 == playerLoc.X - itemLoc.X
        b2 == (wallX + HalfTile) - (wallX - HalfTile)
        a2 == (wallY - HalfTile) - (wallY + HalfTile)
        hit(crossingPoint) ==
            /\ isWithinBounds(crossingPoint, playerLoc, itemLoc)
            /\ isWithinBounds(crossingPoint, wallCorner1, wallCorner2)
    IN  \/ a1 * b2 # 0 /\ hit(CrossTop(playerLoc, itemLoc, wallX, wallY))
        \/ 0 - a2 * b1 # 0 /\ hit(CrossLeft(playerLoc, itemLoc, wallX, wallY))

\* a variant with the answer the wrong way round: true when a wall intersects
canSeeItemInverted(walls, playerLoc, itemLoc) ==
    \E w \in walls : intersects(playerLoc, itemLoc, w.X, w.Y)

\* canSeeItem's loop over the walls known when it holds wallMutex
canSeeItemIn(walls, playerLoc, itemLoc) ==
    \A w \in walls : ~intersects(playerLoc, itemLoc, w.X, w.Y)

(***************************************************************************)
(* Bounce.                                                                 *)
(***************************************************************************)
\* a variant that tests y before x
newDirectionYFirst(oldDir, last, currentLoc) ==
    LET xUnchanged == last.X < currentLoc.X + sensitivity /\ last.X > currentLoc.X - sensitivity
        yUnchanged == last.Y < currentLoc.Y + sensitivity /\ last.Y > currentLoc.Y - sensitivity
    IN  IF yUnchanged
        THEN CASE oldDir = "ne" -> "se"
               [] oldDir = "se" -> "ne"
               [] oldDir = "sw" -> "nw"
               [] oldDir = "nw" -> "sw"
               [] OTHER -> oldDir
        ELSE IF xUnchanged
        THEN CASE oldDir = "ne" -> "nw"
               [] oldDir = "se" -> "sw"
               [] oldDir = "sw" -> "se"
               [] oldDir = "nw" -> "ne"
               [] OTHER -> oldDir
        ELSE oldDir

\* a variant that bounces off the wrong wall: a blocked x flips the y sign
newDirectionSwapped(oldDir, last, currentLoc) ==
    LET xUnchanged == last.X < currentLoc.X + sensitivity /\ last.X > currentLoc.X - sensitivity
        yUnchanged == last.Y < currentLoc.Y + sensitivity /\ last.Y > currentLoc.Y - sensitivity
    IN  IF xUnchanged
        THEN CASE oldDir = "ne" -> "se"
               [] oldDir = "se" -> "ne"
               [] oldDir = "sw" -> "nw"
               [] oldDir = "nw" -> "sw"
               [] OTHER -> oldDir
        ELSE IF yUnchanged
        THEN CASE oldDir = "ne" -> "nw"
               [] oldDir = "se" -> "sw"
               [] oldDir = "sw" -> "se"
               [] oldDir = "nw" -> "ne"
               [] OTHER -> oldDir
        ELSE oldDir

newDirection(oldDir, last, currentLoc) ==
    LET xUnchanged == last.X < currentLoc.X + sensitivity /\ last.X > currentLoc.X - sensitivity
        yUnchanged == last.Y < currentLoc.Y + sensitivity /\ last.Y > currentLoc.Y - sensitivity
    IN  IF xUnchanged
        THEN CASE oldDir = "ne" -> "nw"
               [] oldDir = "se" -> "sw"
               [] oldDir = "sw" -> "se"
               [] oldDir = "nw" -> "ne"
               [] OTHER -> oldDir
        ELSE IF yUnchanged
        THEN CASE oldDir = "ne" -> "se"
               [] oldDir = "se" -> "ne"
               [] oldDir = "sw" -> "nw"
               [] oldDir = "nw" -> "sw"
               [] OTHER -> oldDir
        ELSE oldDir

\* moveToDir's target
dirTarget(d, from) ==
    CASE d = "ne" -> Loc(from.X + Stride, from.Y - Stride)
      [] d = "se" -> Loc(from.X + Stride, from.Y + Stride)
      [] d = "sw" -> Loc(from.X - Stride, from.Y + Stride)
      [] d = "nw" -> Loc(from.X - Stride, from.Y - Stride)
      [] OTHER -> from

\* a variant with the y axis the other way up: a larger y is north
faceDirNorthUp(enemy, player) ==
    IF enemy.X = player.X THEN (IF enemy.Y > player.Y THEN "n" ELSE "s")
    ELSE IF enemy.Y = player.Y THEN (IF enemy.X > player.X THEN "e" ELSE "w")
    ELSE IF enemy.X > player.X THEN (IF enemy.Y > player.Y THEN "ne" ELSE "se")
    ELSE (IF enemy.Y > player.Y THEN "nw" ELSE "sw")

\* shoot's facing direction
faceDir(enemy, player) ==
    IF enemy.X = player.X THEN (IF enemy.Y > player.Y THEN "s" ELSE "n")
    ELSE IF enemy.Y = player.Y THEN (IF enemy.X > player.X THEN "e" ELSE "w")
    ELSE IF enemy.X > player.X THEN (IF enemy.Y > player.Y THEN "se" ELSE "ne")
    ELSE (IF enemy.Y > player.Y THEN "sw" ELSE "nw")

\* a variant that keeps the entry seen exactly at the deadline
keepFreshInclusive(items, dl) == SelectSeq(items, LAMBDA a : a.Seen >= dl)

\* the Seen.After(deadline) filter of expireItems
keepFresh(items, dl) == SelectSeq(items, LAMBDA a : a.Seen > dl)

VARIABLES
    Player, Exit, MyKey, Floor, Walls, SawEnemy, Enemy, Ammo, Food,
    floorMutex, wallMutex, ammoMutex, foodMutex,
    now, crashed,
    rpc, msgParams, ri, nRecv,
    wpc, dir, targetItem, shotCount, lastLoc, argFrom, argTo, seen, deadline,
    newAmmo, newFood, out

gameVars == <<Player, Exit, MyKey, Floor, Walls, SawEnemy, Enemy, Ammo, Food>>
mutexVars == <<floorMutex, wallMutex, ammoMutex, foodMutex>>
readVars == <<rpc, msgParams, ri, nRecv>>
writeVars ==
    <<wpc, dir, targetItem, shotCount, lastLoc, argFrom, argTo, seen, deadline,
      newAmmo, newFood, out>>
vars == <<gameVars, mutexVars, now, crashed, readVars, writeVars>>

Init ==
    /\ Player = ZeroPlayer
    /\ Exit = Nil
    /\ MyKey = Nil
    /\ Floor = {}
    /\ Walls = {}
    /\ SawEnemy = ZeroTime
    /\ Enemy = Nil
    /\ Ammo = <<>>
    /\ Food = <<>>
    /\ floorMutex = "free"
    /\ wallMutex = "free"
    /\ ammoMutex = "free"
    /\ foodMutex = "free"
    /\ now = 0
    /\ crashed = FALSE
    /\ rpc = "recv"
    /\ msgParams = <<"">>
    /\ ri = 0
    /\ nRecv = 0
    /\ wpc = "target"
    /\ dir = "ne"
    /\ targetItem = "key"
    /\ shotCount = shotDelay
    /\ lastLoc = Loc(0, 0)
    /\ argFrom = Loc(0, 0)
    /\ argTo = Loc(0, 0)
    /\ seen = FALSE
    /\ deadline = 0
    /\ newAmmo = <<>>
    /\ newFood = <<>>
    /\ out = <<>>

(***************************************************************************)
(* readLoop.  An index past the end of msgParams (or of msgParts) is a Go  *)
(* run-time panic, which ends the process: both threads stop.              *)
(***************************************************************************)
Alive == ~crashed
CanRecv == Alive /\ rpc = "recv" /\ nRecv < MaxMsgs

\* msgParams[k], Go's index
P(params, k) == params[k + 1]
Has(params, k) == Len(params) > k

Panic == crashed' = TRUE

\* back to ReadFromUDP
NextMsg == rpc' = "recv" /\ msgParams' = <<"">> /\ ri' = 0

\* msgParts[1] of a datagram without ':'
RecvNoColon ==
    /\ CanRecv
    /\ \E m \in Msgs :
        /\ ~m.Colon
        /\ nRecv' = nRecv + 1
        /\ Panic
    /\ UNCHANGED <<gameVars, mutexVars, now, rpc, msgParams, ri, writeVars>>

RecvPlayerJoined ==
    /\ CanRecv
    /\ \E m \in Msgs :
        /\ m.Colon /\ m.Type = "playerjoined"
        /\ nRecv' = nRecv + 1
        /\ IF Has(m.Params, 3)
           THEN /\ Player' = [Name |-> P(m.Params, 0),
                              Loc |-> Loc(Atoi(P(m.Params, 2)), Atoi(P(m.Params, 3))),
                              Health |-> 0, Ammo |-> 0, HasKey |-> FALSE]
                /\ UNCHANGED crashed
           ELSE Panic /\ UNCHANGED Player
    /\ UNCHANGED <<Exit, MyKey, Walls, SawEnemy, Enemy, Ammo, Food, mutexVars, now, Floor,
                   rpc, msgParams, ri, writeVars>>

\* playerupdate: five stores, one field each
RecvPlayerUpdate ==
    /\ CanRecv
    /\ \E m \in Msgs :
        /\ m.Colon /\ m.Type = "playerupdate"
        /\ nRecv' = nRecv + 1
        /\ msgParams' = m.Params
        /\ Player' = [Player EXCEPT !.Loc.X = ParseFloatInt(P(m.Params, 0))]
    /\ rpc' = "pu_y"
    /\ UNCHANGED <<Exit, MyKey, Walls, SawEnemy, Enemy, Ammo, Food, mutexVars, now, Floor,
                   crashed, ri, writeVars>>

PuY ==
    /\ Alive /\ rpc = "pu_y"
    /\ IF Has(msgParams, 1)
       THEN /\ Player' = [Player EXCEPT !.Loc.Y = ParseFloatInt(P(msgParams, 1))]
            /\ rpc' = "pu_health"
            /\ UNCHANGED crashed
       ELSE Panic /\ UNCHANGED <<Player, rpc>>
    /\ UNCHANGED <<Exit, MyKey, Walls, SawEnemy, Enemy, Ammo, Food, mutexVars, now, Floor,
                   msgParams, ri, nRecv, writeVars>>

PuHealth ==
    /\ Alive /\ rpc = "pu_health"
    /\ IF Has(msgParams, 2)
       THEN /\ Player' = [Player EXCEPT !.Health = Atoi(P(msgParams, 2))]
            /\ rpc' = "pu_ammo"
            /\ UNCHANGED crashed
       ELSE Panic /\ UNCHANGED <<Player, rpc>>
    /\ UNCHANGED <<Exit, MyKey, Walls, SawEnemy, Enemy, Ammo, Food, mutexVars, now, Floor,
                   msgParams, ri, nRecv, writeVars>>

PuAmmo ==
    /\ Alive /\ rpc = "pu_ammo"
    /\ IF Has(msgParams, 3)
       THEN /\ Player' = [Player EXCEPT !.Ammo = Atoi(P(msgParams, 3))]
            /\ rpc' = "pu_key"
            /\ UNCHANGED crashed
       ELSE Panic /\ UNCHANGED <<Player, rpc>>
    /\ UNCHANGED <<Exit, MyKey, Walls, SawEnemy, Enemy, Ammo, Food, mutexVars, now, Floor,
                   msgParams, ri, nRecv, writeVars>>

PuKey ==
    /\ Alive /\ rpc = "pu_key"
    /\ IF Has(msgParams, 4)
       THEN /\ Player' = [Player EXCEPT !.HasKey = HasPrefixTrue(P(msgParams, 4))]
            /\ NextMsg
            /\ UNCHANGED crashed
       ELSE Panic /\ UNCHANGED <<Player, rpc, msgParams, ri>>
    /\ UNCHANGED <<Exit, MyKey, Walls, SawEnemy, Enemy, Ammo, Food, mutexVars, now, Floor,
                   nRecv, writeVars>>

\* a variant without the nil test: every exit datagram is stored
RecvExitOverwrite ==
    /\ CanRecv
    /\ \E m \in Msgs :
        /\ m.Colon /\ m.Type = "exit"
        /\ nRecv' = nRecv + 1
        /\ IF Has(m.Params, 1)
           THEN /\ Exit' = Ref(Loc(Atoi(P(m.Params, 0)), Atoi(P(m.Params, 1))))
                /\ UNCHANGED crashed
           ELSE Panic /\ UNCHANGED Exit
    /\ UNCHANGED <<Player, MyKey, Walls, SawEnemy, Enemy, Ammo, Food, mutexVars, now, Floor,
                   rpc, msgParams, ri, writeVars>>

RecvExit ==
    /\ CanRecv
    /\ \E m \in Msgs :
        /\ m.Colon /\ m.Type = "exit"
        /\ nRecv' = nRecv + 1
        /\ IF Exit # Nil
           THEN UNCHANGED <<Exit, crashed>>
           ELSE IF Has(m.Params, 1)
           THEN /\ Exit' = Ref(Loc(Atoi(P(m.Params, 0)), Atoi(P(m.Params, 1))))
                /\ UNCHANGED crashed
           ELSE Panic /\ UNCHANGED Exit
    /\ UNCHANGED <<Player, MyKey, Walls, SawEnemy, Enemy, Ammo, Food, mutexVars, now, Floor,
                   rpc, msgParams, ri, writeVars>>

\* nearbyitem: the player's own key, or on to addAmmo / addFood
RecvNearbyItem ==
    /\ CanRecv
    /\ \E m \in Msgs :
        /\ m.Colon /\ m.Type = "nearbyitem"
        /\ nRecv' = nRecv + 1
        /\ IF ~Has(m.Params, 2)
           THEN Panic /\ UNCHANGED <<MyKey, rpc, msgParams>>
           ELSE LET item == P(m.Params, 0)
                    x == Atoi(P(m.Params, 1))
                    y == Atoi(P(m.Params, 2))
                    myKeyName == colorMap(Player.Name) \o "key"
                IN  /\ UNCHANGED crashed
                    /\ IF item = myKeyName
                       THEN /\ MyKey' = IF MyKey = Nil THEN Ref(Loc(x, y)) ELSE MyKey
                            /\ UNCHANGED <<rpc, msgParams>>
                       ELSE /\ UNCHANGED MyKey
                            /\ IF item = "ammo"
                               THEN rpc' = "addAmmo" /\ msgParams' = m.Params
                               ELSE IF item = "food"
                               THEN rpc' = "addFood" /\ msgParams' = m.Params
                               ELSE UNCHANGED <<rpc, msgParams>>
    /\ UNCHANGED <<Player, Exit, Walls, SawEnemy, Enemy, Ammo, Food, mutexVars, now, Floor,
                   ri, writeVars>>

AddAmmoLock ==
    /\ Alive /\ rpc = "addAmmo" /\ ammoMutex = "free"
    /\ ammoMutex' = "readLoop"
    /\ rpc' = "addAmmo_cs"
    /\ UNCHANGED <<gameVars, wallMutex, foodMutex, now, floorMutex, crashed, msgParams, ri, nRecv, writeVars>>

\* GameState.Ammo = ammo stores a slice header of several words (array,
\* length, capacity), and the planner reads that header without ammoMutex.
\* AddAmmoAppend is the append and the header's length; addAmmo is the
\* header's array and the deferred unlock.  Between the two a reader without
\* the mutex finds the new length with the old array.  (With the array stored
\* first such a reader finds the old length with the new array, which holds
\* the old entries too: no reader tells that from the store not yet made.)
AddAmmoAppend ==
    /\ Alive /\ rpc = "addAmmo_cs"
    /\ Ammo' = Append(Ammo, Item(Loc(Atoi(P(msgParams, 1)), Atoi(P(msgParams, 2))), now))
    /\ rpc' = "addAmmo_st"
    /\ UNCHANGED <<Player, Exit, MyKey, Walls, SawEnemy, Enemy, Food, mutexVars,
                   now, Floor, crashed, msgParams, ri, nRecv, writeVars>>

addAmmo ==
    /\ Alive /\ rpc = "addAmmo_st"
    /\ ammoMutex' = "free"
    /\ NextMsg
    /\ UNCHANGED <<gameVars, wallMutex, foodMutex, now, floorMutex, crashed, nRecv, writeVars>>

AddFoodLock ==
    /\ Alive /\ rpc = "addFood" /\ foodMutex = "free"
    /\ foodMutex' = "readLoop"
    /\ rpc' = "addFood_cs"
    /\ UNCHANGED <<gameVars, wallMutex, ammoMutex, now, floorMutex, crashed, msgParams, ri, nRecv, writeVars>>

\* the append and the header's length, as in AddAmmoAppend
AddFoodAppend ==
    /\ Alive /\ rpc = "addFood_cs"
    /\ Food' = Append(Food, Item(Loc(Atoi(P(msgParams, 1)), Atoi(P(msgParams, 2))), now))
    /\ rpc' = "addFood_st"
    /\ UNCHANGED <<Player, Exit, MyKey, Walls, SawEnemy, Enemy, Ammo, mutexVars,
                   now, Floor, crashed, msgParams, ri, nRecv, writeVars>>

addFood ==
    /\ Alive /\ rpc = "addFood_st"
    /\ foodMutex' = "free"
    /\ NextMsg
    /\ UNCHANGED <<gameVars, wallMutex, ammoMutex, now, floorMutex, crashed, nRecv, writeVars>>

\* nearbyplayer: the time of the sighting, then its place
RecvNearbyPlayer ==
    /\ CanRecv
    /\ \E m \in Msgs :
        /\ m.Colon /\ m.Type = "nearbyplayer"
        /\ nRecv' = nRecv + 1
        /\ msgParams' = m.Params
    /\ SawEnemy' = now
    /\ rpc' = "np_enemy"
    /\ UNCHANGED <<Player, Exit, MyKey, Walls, Enemy, Ammo, Food, mutexVars, now, Floor,
                   crashed, ri, writeVars>>

NpEnemy ==
    /\ Alive /\ rpc = "np_enemy"
    /\ IF Has(msgParams, 3)
       THEN /\ Enemy' = Ref(Loc(ParseFloatInt(P(msgParams, 2)), ParseFloatInt(P(msgParams, 3))))
            /\ NextMsg
            /\ UNCHANGED crashed
       ELSE Panic /\ UNCHANGED <<Enemy, rpc, msgParams, ri>>
    /\ UNCHANGED <<Player, Exit, MyKey, Walls, SawEnemy, Ammo, Food, mutexVars, now, Floor,
                   nRecv, writeVars>>

\* nearbywalls: for i := 0; i < len(msgParams)-1; i += 2 { setWall(...) }
RecvNearbyWalls ==
    /\ CanRecv
    /\ \E m \in Msgs :
        /\ m.Colon /\ m.Type = "nearbywalls"
        /\ nRecv' = nRecv + 1
        /\ IF 0 < Len(m.Params) - 1
           THEN rpc' = "setWall" /\ msgParams' = m.Params
           ELSE UNCHANGED <<rpc, msgParams>>
    /\ ri' = 0
    /\ UNCHANGED <<gameVars, mutexVars, now, crashed, writeVars>>

SetWallLock ==
    /\ Alive /\ rpc = "setWall" /\ wallMutex = "free"
    /\ wallMutex' = "readLoop"
    /\ rpc' = "setWall_cs"
    /\ UNCHANGED <<gameVars, ammoMutex, foodMutex, now, floorMutex, crashed, msgParams, ri, nRecv, writeVars>>

\* a variant that makes a fresh map of the walls for every datagram
setWallFresh ==
    /\ Alive /\ rpc = "setWall_cs"
    /\ Walls' = (IF ri = 0 THEN {} ELSE Walls)
                    \cup {Loc(Atoi(P(msgParams, ri)), Atoi(P(msgParams, ri + 1)))}
    /\ wallMutex' = "free"
    /\ IF ri + 2 < Len(msgParams) - 1
       THEN ri' = ri + 2 /\ rpc' = "setWall" /\ UNCHANGED msgParams
       ELSE NextMsg
    /\ UNCHANGED <<Player, Exit, MyKey, SawEnemy, Enemy, Ammo, Food, ammoMutex, foodMutex,
                   now, Floor, floorMutex, crashed, nRecv, writeVars>>

setWall ==
    /\ Alive /\ rpc = "setWall_cs"
    /\ Walls' = Walls \cup {Loc(Atoi(P(msgParams, ri)), Atoi(P(msgParams, ri + 1)))}
    /\ wallMutex' = "free"
    /\ IF ri + 2 < Len(msgParams) - 1
       THEN ri' = ri + 2 /\ rpc' = "setWall" /\ UNCHANGED msgParams
       ELSE NextMsg
    /\ UNCHANGED <<Player, Exit, MyKey, SawEnemy, Enemy, Ammo, Food, ammoMutex, foodMutex,
                   now, Floor, floorMutex, crashed, nRecv, writeVars>>

\* nearbyfloors has no effect; any other type is logged
RecvIgnored ==
    /\ CanRecv
    /\ \E m \in Msgs :
        /\ m.Colon
        /\ m.Type \notin {"playerjoined", "playerupdate", "exit", "nearbyitem",
                          "nearbyplayer", "nearbywalls"}
        /\ nRecv' = nRecv + 1
    /\ UNCHANGED <<gameVars, mutexVars, now, crashed, rpc, msgParams, ri, writeVars>>

readLoop ==
    \/ RecvNoColon \/ RecvPlayerJoined \/ RecvPlayerUpdate \/ PuY \/ PuHealth \/ PuAmmo \/ PuKey
    \/ RecvExit \/ RecvNearbyItem \/ AddAmmoLock \/ AddAmmoAppend \/ addAmmo
    \/ AddFoodLock \/ AddFoodAppend \/ addFood
    \/ RecvNearbyPlayer \/ NpEnemy \/ RecvNearbyWalls \/ SetWallLock \/ setWall \/ RecvIgnored

(***************************************************************************)
(* writeLoop.  out holds the commands sent in the current tick.  The cases *)
(* "key" and "exit" of its switch are dead: targetItem is "ammo", "food"   *)
(* or "enemy" by then.                                                     *)
(***************************************************************************)
Cmd(c, x, y, d) == [cmd |-> c, X |-> x, Y |-> y, dir |-> d]
moveTo(to) == Cmd("moveto", to.X, to.Y, "")
face(d) == Cmd("facedirection", 0, 0, d)
fire == Cmd("fire", 0, 0, "")

\* a variant that looks at the health before the ammo count
targetOfHealthFirst(ammo, health) ==
    IF health < 2 THEN "food" ELSE IF ammo = 0 THEN "ammo" ELSE "enemy"

\* the category chosen from the ammo count and the health
targetOf(ammo, health) ==
    IF ammo = 0 THEN "ammo" ELSE IF health < 2 THEN "food" ELSE "enemy"

\* if GameState.Player.Ammo == 0
W_Target ==
    /\ Alive /\ wpc = "target"
    /\ IF Player.Ammo = 0
       THEN targetItem' = targetOf(Player.Ammo, 0) /\ wpc' = "lastX"
       ELSE UNCHANGED targetItem /\ wpc' = "health"
    /\ UNCHANGED <<gameVars, mutexVars, now, newAmmo, newFood, crashed, readVars,
                   dir, shotCount, lastLoc, argFrom, argTo, seen, deadline, out>>

\* else if GameState.Player.Health < 2
W_Health ==
    /\ Alive /\ wpc = "health"
    /\ targetItem' = targetOf(1, Player.Health)
    /\ wpc' = "lastX"
    /\ UNCHANGED <<gameVars, mutexVars, now, newAmmo, newFood, crashed, readVars,
                   dir, shotCount, lastLoc, argFrom, argTo, seen, deadline, out>>

\* lastLoc := GameState.Player.Loc, a copy of two words
W_LastX ==
    /\ Alive /\ wpc = "lastX"
    /\ lastLoc' = [lastLoc EXCEPT !.X = Player.Loc.X]
    /\ wpc' = "lastY"
    /\ UNCHANGED <<gameVars, mutexVars, now, newAmmo, newFood, crashed, readVars,
                   dir, targetItem, shotCount, argFrom, argTo, seen, deadline, out>>

W_LastY ==
    /\ Alive /\ wpc = "lastY"
    /\ lastLoc' = [lastLoc EXCEPT !.Y = Player.Loc.Y]
    /\ wpc' = "select"
    /\ UNCHANGED <<gameVars, mutexVars, now, newAmmo, newFood, crashed, readVars,
                   dir, targetItem, shotCount, argFrom, argTo, seen, deadline, out>>

\* whether the category has a candidate, read without a lock
hasCandidate ==
    CASE targetItem = "ammo" -> Len(Ammo) > 0
      [] targetItem = "food" -> Len(Food) > 0
      [] targetItem = "enemy" -> Enemy # Nil
      [] OTHER -> FALSE

\* what a read finds at the array of an empty slice (make([]Item, 0), the
\* run time's one address for allocations of no size): a zero word and the
\* word after it, whatever that holds, not a sighting
StrayLocs == {Loc(0, 0), Loc(0, 30)}

\* items[0].Loc read without the mutex: while the header's store is under way
\* and the old array is the empty one, the length lets the index through and
\* the read is of the empty array
slot0(items, storing) ==
    IF storing /\ Len(items) = 1 THEN StrayLocs ELSE {items[1].Loc}

\* Ammo[0].Loc, Food[0].Loc or *Enemy, as a read of them can turn out
candidate ==
    CASE targetItem = "ammo" -> slot0(Ammo, rpc = "addAmmo_st")
      [] targetItem = "food" -> slot0(Food, rpc = "addFood_st")
      [] OTHER -> {Deref(Enemy)}

\* switch targetItem: the candidate test and the arguments of canSeeItem
W_Select ==
    /\ Alive /\ wpc = "select"
    /\ IF hasCandidate
       THEN argFrom' = Player.Loc /\ argTo' \in candidate /\ wpc' = "see"
       ELSE UNCHANGED <<argFrom, argTo>> /\ wpc' = "wanderX"
    /\ UNCHANGED <<gameVars, mutexVars, now, newAmmo, newFood, crashed, readVars,
                   dir, targetItem, shotCount, lastLoc, seen, deadline, out>>

W_SeeLock ==
    /\ Alive /\ wpc = "see" /\ wallMutex = "free"
    /\ wallMutex' = "writeLoop"
    /\ wpc' = "see_cs"
    /\ UNCHANGED <<gameVars, ammoMutex, foodMutex, now, floorMutex, newAmmo, newFood, crashed, readVars,
                   dir, targetItem, shotCount, lastLoc, argFrom, argTo, seen, deadline, out>>

\* canSeeItem(GameState.Player.Loc, candidate)
canSeeItem ==
    /\ Alive /\ wpc = "see_cs"
    /\ seen' = canSeeItemIn(Walls, argFrom, argTo)
    /\ wallMutex' = "free"
    /\ wpc' = IF seen' THEN "move" ELSE "wanderX"
    /\ UNCHANGED <<gameVars, ammoMutex, foodMutex, now, floorMutex, newAmmo, newFood, crashed, readVars,
                   dir, targetItem, shotCount, lastLoc, argFrom, argTo, deadline, out>>

\* moveTo(candidate), the candidate read again
W_Move ==
    /\ Alive /\ wpc = "move"
    /\ \E c \in candidate : out' = Append(out, moveTo(c))
    /\ wpc' = "sleep"
    /\ UNCHANGED <<gameVars, mutexVars, now, newAmmo, newFood, crashed, readVars,
                   dir, targetItem, shotCount, lastLoc, argFrom, argTo, seen, deadline>>

\* moveToDir: x := GameState.Player.Loc.X
W_WanderX ==
    /\ Alive /\ wpc = "wanderX"
    /\ argFrom' = [argFrom EXCEPT !.X = Player.Loc.X]
    /\ wpc' = "wanderY"
    /\ UNCHANGED <<gameVars, mutexVars, now, newAmmo, newFood, crashed, readVars,
                   dir, targetItem, shotCount, lastLoc, argTo, seen, deadline, out>>

\* a variant that wanders from the place the tick started at, not from the
\* place the player is at now
moveToDirFromLast ==
    /\ Alive /\ wpc = "wanderY"
    /\ argFrom' = [argFrom EXCEPT !.Y = Player.Loc.Y]
    /\ out' = Append(out, moveTo(dirTarget(dir, lastLoc)))
    /\ wpc' = "sleep"
    /\ UNCHANGED <<gameVars, mutexVars, now, crashed, readVars,
                   dir, targetItem, shotCount, lastLoc, argTo, seen, deadline,
                   newAmmo, newFood>>

\* y := GameState.Player.Loc.Y, and the moveto
moveToDir ==
    /\ Alive /\ wpc = "wanderY"
    /\ argFrom' = [argFrom EXCEPT !.Y = Player.Loc.Y]
    /\ out' = Append(out, moveTo(dirTarget(dir, argFrom')))
    /\ wpc' = "sleep"
    /\ UNCHANGED <<gameVars, mutexVars, now, newAmmo, newFood, crashed, readVars,
                   dir, targetItem, shotCount, lastLoc, argTo, seen, deadline>>

\* time.Sleep(100 * time.Millisecond)
W_Sleep ==
    /\ Alive /\ wpc = "sleep"
    /\ wpc' = "newdir"
    /\ UNCHANGED <<gameVars, mutexVars, now, newAmmo, newFood, crashed, readVars,
                   dir, targetItem, shotCount, lastLoc, argFrom, argTo, seen, deadline, out>>

\* dir = newDirection(dir, lastLoc, GameState.Player.Loc)
W_NewDir ==
    /\ Alive /\ wpc = "newdir"
    /\ dir' = newDirection(dir, lastLoc, Player.Loc)
    /\ wpc' = "shot"
    /\ UNCHANGED <<gameVars, mutexVars, now, newAmmo, newFood, crashed, readVars,
                   targetItem, shotCount, lastLoc, argFrom, argTo, seen, deadline, out>>

\* GameState.SawEnemy.After(time.Now().Add(-1 * time.Second))
enemyFresh == SawEnemy > now - EnemyFresh

\* a variant without the countdown's test: shoot is tried in every tick
W_ShotEveryTick ==
    /\ Alive /\ wpc = "shot"
    /\ IF ~enemyFresh
       THEN /\ shotCount' = (IF shotCount = 0 THEN shotDelay ELSE shotCount - 1)
            /\ wpc' = "expire"
            /\ UNCHANGED <<argFrom, argTo, crashed>>
       ELSE IF Enemy = Nil
       THEN Panic /\ UNCHANGED <<shotCount, wpc, argFrom, argTo>>
       ELSE /\ argFrom' = Player.Loc
            /\ argTo' = Deref(Enemy)
            /\ wpc' = "shoot_see"
            /\ UNCHANGED <<shotCount, crashed>>
    /\ UNCHANGED <<gameVars, mutexVars, now, newAmmo, newFood, readVars,
                   dir, targetItem, lastLoc, seen, deadline, out>>

\* if shotCount == 0 { shoot(conn) ... } else { shotCount-- }; shoot's first test
\* and the arguments of its canSeeItem, *GameState.Enemy among them
W_Shot ==
    /\ Alive /\ wpc = "shot"
    /\ IF shotCount # 0
       THEN /\ shotCount' = shotCount - 1
            /\ wpc' = "expire"
            /\ UNCHANGED <<argFrom, argTo, crashed>>
       ELSE IF ~enemyFresh
       THEN /\ shotCount' = shotDelay
            /\ wpc' = "expire"
            /\ UNCHANGED <<argFrom, argTo, crashed>>
       ELSE IF Enemy = Nil
       THEN Panic /\ UNCHANGED <<shotCount, wpc, argFrom, argTo>>
       ELSE /\ argFrom' = Player.Loc
            /\ argTo' = Deref(Enemy)
            /\ wpc' = "shoot_see"
            /\ UNCHANGED <<shotCount, crashed>>
    /\ UNCHANGED <<gameVars, mutexVars, now, newAmmo, newFood, readVars,
                   dir, targetItem, lastLoc, seen, deadline, out>>

W_ShootLock ==
    /\ Alive /\ wpc = "shoot_see" /\ wallMutex = "free"
    /\ wallMutex' = "writeLoop"
    /\ wpc' = "shoot_cs"
    /\ UNCHANGED <<gameVars, ammoMutex, foodMutex, now, floorMutex, newAmmo, newFood, crashed, readVars,
                   dir, targetItem, shotCount, lastLoc, argFrom, argTo, seen, deadline, out>>

\* a variant that fires whatever canSeeItem answers
W_ShootBlind ==
    /\ Alive /\ wpc = "shoot_cs"
    /\ seen' = canSeeItemIn(Walls, argFrom, argTo)
    /\ wallMutex' = "free"
    /\ wpc' = "shoot_fire" /\ UNCHANGED shotCount
    /\ UNCHANGED <<gameVars, ammoMutex, foodMutex, now, floorMutex, newAmmo, newFood, crashed, readVars,
                   dir, targetItem, lastLoc, argFrom, argTo, deadline, out>>

\* shoot's canSeeItem; a blocked shot returns to the loop, which resets shotCount
W_ShootSee ==
    /\ Alive /\ wpc = "shoot_cs"
    /\ seen' = canSeeItemIn(Walls, argFrom, argTo)
    /\ wallMutex' = "free"
    /\ IF seen'
       THEN wpc' = "shoot_fire" /\ UNCHANGED shotCount
       ELSE wpc' = "expire" /\ shotCount' = shotDelay
    /\ UNCHANGED <<gameVars, ammoMutex, foodMutex, now, floorMutex, newAmmo, newFood, crashed, readVars,
                   dir, targetItem, lastLoc, argFrom, argTo, deadline, out>>

\* face(dir, conn); fire(conn)
shoot ==
    /\ Alive /\ wpc = "shoot_fire"
    /\ out' = out \o <<face(faceDir(Deref(Enemy), Player.Loc)), fire>>
    /\ shotCount' = shotDelay
    /\ wpc' = "expire"
    /\ UNCHANGED <<gameVars, mutexVars, now, newAmmo, newFood, crashed, readVars,
                   dir, targetItem, lastLoc, argFrom, argTo, seen, deadline>>

\* deadline := time.Now().Add(-5 * time.Second)
W_Expire ==
    /\ Alive /\ wpc = "expire"
    /\ deadline' = now - ExpireAfter
    /\ wpc' = "exp_ammo"
    /\ UNCHANGED <<gameVars, mutexVars, now, newAmmo, newFood, crashed, readVars,
                   dir, targetItem, shotCount, lastLoc, argFrom, argTo, seen, out>>

\* a variant that does not wait for ammoMutex
ExpAmmoNoLock ==
    /\ Alive /\ wpc = "exp_ammo"
    /\ ammoMutex' = "writeLoop"
    /\ wpc' = "exp_ammo_cs"
    /\ UNCHANGED <<gameVars, wallMutex, foodMutex, now, floorMutex, newAmmo, newFood, crashed, readVars,
                   dir, targetItem, shotCount, lastLoc, argFrom, argTo, seen, deadline, out>>

ExpAmmoLock ==
    /\ Alive /\ wpc = "exp_ammo" /\ ammoMutex = "free"
    /\ ammoMutex' = "writeLoop"
    /\ wpc' = "exp_ammo_cs"
    /\ UNCHANGED <<gameVars, wallMutex, foodMutex, now, floorMutex, newAmmo, newFood, crashed, readVars,
                   dir, targetItem, shotCount, lastLoc, argFrom, argTo, seen, deadline, out>>

\* newAmmo := the entries of GameState.Ammo seen after the deadline
ExpAmmoScan ==
    /\ Alive /\ wpc = "exp_ammo_cs"
    /\ newAmmo' = keepFresh(Ammo, deadline)
    /\ wpc' = "exp_ammo_wr"
    /\ UNCHANGED <<gameVars, mutexVars, now, crashed, readVars,
                   dir, targetItem, shotCount, lastLoc, argFrom, argTo, seen, deadline,
                   newFood, out>>

\* GameState.Ammo = newAmmo; ammoMutex.Unlock()
expireAmmo ==
    /\ Alive /\ wpc = "exp_ammo_wr"
    /\ Ammo' = newAmmo
    /\ newAmmo' = <<>>
    /\ ammoMutex' = "free"
    /\ wpc' = "exp_food"
    /\ UNCHANGED <<Player, Exit, MyKey, Floor, Walls, SawEnemy, Enemy, Food,
                   floorMutex, wallMutex, foodMutex, now, crashed, readVars,
                   dir, targetItem, shotCount, lastLoc, argFrom, argTo, seen, deadline,
                   newFood, out>>

\* the end of the loop's body: its locals go out of scope, and the next tick's
\* commands are counted afresh
EndOfTick ==
    /\ lastLoc' = Loc(0, 0)
    /\ argFrom' = Loc(0, 0)
    /\ argTo' = Loc(0, 0)
    /\ seen' = FALSE
    /\ deadline' = 0
    /\ out' = <<>>

ExpFoodLock ==
    /\ Alive /\ wpc = "exp_food" /\ foodMutex = "free"
    /\ foodMutex' = "writeLoop"
    /\ wpc' = "exp_food_cs"
    /\ UNCHANGED <<gameVars, wallMutex, ammoMutex, now, floorMutex, newAmmo, newFood, crashed, readVars,
                   dir, targetItem, shotCount, lastLoc, argFrom, argTo, seen, deadline, out>>

\* newFood := the entries of GameState.Food seen after the deadline
ExpFoodScan ==
    /\ Alive /\ wpc = "exp_food_cs"
    /\ newFood' = keepFresh(Food, deadline)
    /\ wpc' = "exp_food_wr"
    /\ UNCHANGED <<gameVars, mutexVars, now, crashed, readVars,
                   dir, targetItem, shotCount, lastLoc, argFrom, argTo, seen, deadline,
                   newAmmo, out>>

\* GameState.Food = newFood; foodMutex.Unlock()
expireFood ==
    /\ Alive /\ wpc = "exp_food_wr"
    /\ Food' = newFood
    /\ newFood' = <<>>
    /\ foodMutex' = "free"
    /\ wpc' = "target"
    /\ EndOfTick
    /\ UNCHANGED <<Player, Exit, MyKey, Floor, Walls, SawEnemy, Enemy, Ammo,
                   floorMutex, wallMutex, ammoMutex, now, crashed, readVars,
                   dir, targetItem, shotCount, newAmmo>>

writeLoop ==
    \/ W_Target \/ W_Health \/ W_LastX \/ W_LastY \/ W_Select \/ W_SeeLock \/ canSeeItem
    \/ W_Move \/ W_WanderX \/ moveToDir \/ W_Sleep \/ W_NewDir \/ W_Shot \/ W_ShootLock
    \/ W_ShootSee \/ shoot \/ W_Expire \/ ExpAmmoLock \/ ExpAmmoScan \/ expireAmmo
    \/ ExpFoodLock \/ ExpFoodScan \/ expireFood

\* the clock
Tick ==
    /\ Alive /\ now < MaxTime
    /\ now' = now + 1
    /\ UNCHANGED <<gameVars, mutexVars, crashed, readVars, writeVars>>

Next == readLoop \/ writeLoop \/ Tick

Spec == Init /\ [][Next]_vars

(***************************************************************************)
(* The key/exit program: the second program of src/main.go.  Its State has *)
(* a Floor and no Ammo or Food, its canSeeItem answers whether a wall is   *)
(* in the way, and its planner looks for the player's key and then for the *)
(* exit.  Its readLoop decodes playerjoined, playerupdate, exit,           *)
(* nearbyplayer and nearbywalls with the same code as the first program.   *)
(***************************************************************************)
isBetweenPlayerAndItem(point, player, item) ==
    /\ point.X >= Min(player.X, item.X)
    /\ point.X <= Max(player.X, item.X)
    /\ point.Y >= Min(player.Y, item.Y)
    /\ point.Y <= Max(player.Y, item.Y)

\* the line player-item against the lines y = wallY and x = wallX; the
\* quotients are Go's integer division, which truncates toward zero
intersects2(playerLoc, itemLoc, wallX, wallY) ==
    LET a1 == itemLoc.Y - playerLoc.Y
        b1 == playerLoc.X - itemLoc.X
        c1 == a1 * playerLoc.X + b1 * playerLoc.Y
        hit(a2, b2, c2) ==
            LET determinant == a1 * b2 - a2 * b1
            IN  /\ determinant # 0
                /\ isBetweenPlayerAndItem(
                        Loc(TruncDiv(b2 * c1 - b1 * c2, determinant),
                            TruncDiv(a1 * c2 - a2 * c1, determinant)),
                        playerLoc, itemLoc)
        a2h == wallY - wallY
        b2h == (wallX - HalfTile) - (wallX + HalfTile)
        a2v == (wallY - HalfTile) - (wallY + HalfTile)
        b2v == wallX - wallX
    IN  \/ hit(a2h, b2h, a2h * (wallX - HalfTile) + b2h * wallY)
        \/ hit(a2v, b2v, a2v * wallX + b2v * (wallY - HalfTile))

\* canSeeItem of the key/exit program: true when a wall intersects
canSeeItem2In(walls, playerLoc, itemLoc) ==
    \E w \in walls : intersects2(playerLoc, itemLoc, w.X, w.Y)

\* nearbyitem: the player's own key; ammo and food are not recorded
RecvNearbyItem2 ==
    /\ CanRecv
    /\ \E m \in Msgs :
        /\ m.Colon /\ m.Type = "nearbyitem"
        /\ nRecv' = nRecv + 1
        /\ IF ~Has(m.Params, 2)
           THEN Panic /\ UNCHANGED MyKey
           ELSE LET item == P(m.Params, 0)
                    x == Atoi(P(m.Params, 1))
                    y == Atoi(P(m.Params, 2))
                    myKeyName == colorMap(Player.Name) \o "key"
                IN  /\ UNCHANGED crashed
                    /\ MyKey' = IF item = myKeyName /\ MyKey = Nil
                                THEN Ref(Loc(x, y)) ELSE MyKey
    /\ UNCHANGED <<Player, Exit, Floor, Walls, SawEnemy, Enemy, Ammo, Food, mutexVars, now,
                   rpc, msgParams, ri, writeVars>>

\* nearbyfloors: for i := 0; i < len(msgParams)-1; i += 2 { setFloor(...) }
RecvNearbyFloors ==
    /\ CanRecv
    /\ \E m \in Msgs :
        /\ m.Colon /\ m.Type = "nearbyfloors"
        /\ nRecv' = nRecv + 1
        /\ IF 0 < Len(m.Params) - 1
           THEN rpc' = "setFloor" /\ msgParams' = m.Params
           ELSE UNCHANGED <<rpc, msgParams>>
    /\ ri' = 0
    /\ UNCHANGED <<gameVars, mutexVars, now, crashed, writeVars>>

SetFloorLock ==
    /\ Alive /\ rpc = "setFloor" /\ floorMutex = "free"
    /\ floorMutex' = "readLoop"
    /\ rpc' = "setFloor_cs"
    /\ UNCHANGED <<gameVars, wallMutex, ammoMutex, foodMutex, now, crashed,
                   msgParams, ri, nRecv, writeVars>>

setFloor ==
    /\ Alive /\ rpc = "setFloor_cs"
    /\ Floor' = Floor \cup {Loc(Atoi(P(msgParams, ri)), Atoi(P(msgParams, ri + 1)))}
    /\ floorMutex' = "free"
    /\ IF ri + 2 < Len(msgParams) - 1
       THEN ri' = ri + 2 /\ rpc' = "setFloor" /\ UNCHANGED msgParams
       ELSE NextMsg
    /\ UNCHANGED <<Player, Exit, MyKey, Walls, SawEnemy, Enemy, Ammo, Food,
                   wallMutex, ammoMutex, foodMutex, now, crashed, nRecv, writeVars>>

\* any other type is logged
RecvIgnored2 ==
    /\ CanRecv
    /\ \E m \in Msgs :
        /\ m.Colon
        /\ m.Type \notin {"playerjoined", "playerupdate", "exit", "nearbyitem",
                          "nearbyfloors", "nearbyplayer", "nearbywalls"}
        /\ nRecv' = nRecv + 1
    /\ UNCHANGED <<gameVars, mutexVars, now, crashed, rpc, msgParams, ri, writeVars>>

readLoop2 ==
    \/ RecvNoColon \/ RecvPlayerJoined \/ RecvPlayerUpdate \/ PuY \/ PuHealth \/ PuAmmo \/ PuKey
    \/ RecvExit \/ RecvNearbyItem2 \/ RecvNearbyFloors \/ SetFloorLock \/ setFloor
    \/ RecvNearbyPlayer \/ NpEnemy \/ RecvNearbyWalls \/ SetWallLock \/ setWall \/ RecvIgnored2

\* the frame of a planner step that changes wpc and the named locals only
KeepGame == UNCHANGED <<gameVars, now, crashed, readVars, shotCount, deadline, newAmmo, newFood>>

\* lastLoc := GameState.Player.Loc; the commands of the new tick are counted
\* afresh
K_LastX ==
    /\ Alive /\ wpc = "k_lastX"
    /\ lastLoc' = [lastLoc EXCEPT !.X = Player.Loc.X]
    /\ out' = <<>>
    /\ wpc' = "k_lastY"
    /\ KeepGame
    /\ UNCHANGED <<mutexVars, dir, targetItem, argFrom, argTo, seen>>

K_LastY ==
    /\ Alive /\ wpc = "k_lastY"
    /\ lastLoc' = [lastLoc EXCEPT !.Y = Player.Loc.Y]
    /\ wpc' = "k_select"
    /\ KeepGame
    /\ UNCHANGED <<mutexVars, dir, targetItem, argFrom, argTo, seen, out>>

\* GameState.MyKey for "key", GameState.Exit for "exit"
sought == IF targetItem = "exit" THEN Exit ELSE MyKey

\* switch targetItem: the nil test and the arguments of canSeeItem
K_Select ==
    /\ Alive /\ wpc = "k_select"
    /\ IF sought # Nil
       THEN argFrom' = Player.Loc /\ argTo' = Deref(sought) /\ wpc' = "k_see"
       ELSE UNCHANGED <<argFrom, argTo>> /\ wpc' = "k_wanderX"
    /\ KeepGame
    /\ UNCHANGED <<mutexVars, dir, targetItem, lastLoc, seen, out>>

K_SeeLock ==
    /\ Alive /\ wpc = "k_see" /\ wallMutex = "free"
    /\ wallMutex' = "writeLoop"
    /\ wpc' = "k_see_cs"
    /\ KeepGame
    /\ UNCHANGED <<floorMutex, ammoMutex, foodMutex, dir, targetItem, lastLoc,
                   argFrom, argTo, seen, out>>

canSeeItem2 ==
    /\ Alive /\ wpc = "k_see_cs"
    /\ seen' = canSeeItem2In(Walls, argFrom, argTo)
    /\ wallMutex' = "free"
    /\ wpc' = IF seen' THEN "k_move" ELSE "k_wanderX"
    /\ KeepGame
    /\ UNCHANGED <<floorMutex, ammoMutex, foodMutex, dir, targetItem, lastLoc,
                   argFrom, argTo, out>>

\* moveTo(*GameState.MyKey) or moveTo(*GameState.Exit)
K_Move ==
    /\ Alive /\ wpc = "k_move"
    /\ out' = Append(out, moveTo(Deref(sought)))
    /\ wpc' = "k_haskey"
    /\ KeepGame
    /\ UNCHANGED <<mutexVars, dir, targetItem, lastLoc, argFrom, argTo, seen>>

K_WanderX ==
    /\ Alive /\ wpc = "k_wanderX"
    /\ argFrom' = [argFrom EXCEPT !.X = Player.Loc.X]
    /\ wpc' = "k_wanderY"
    /\ KeepGame
    /\ UNCHANGED <<mutexVars, dir, targetItem, lastLoc, argTo, seen, out>>

moveToDir2 ==
    /\ Alive /\ wpc = "k_wanderY"
    /\ argFrom' = [argFrom EXCEPT !.Y = Player.Loc.Y]
    /\ out' = Append(out, moveTo(dirTarget(dir, argFrom')))
    /\ wpc' = "k_haskey"
    /\ KeepGame
    /\ UNCHANGED <<mutexVars, dir, targetItem, lastLoc, argTo, seen>>

\* if GameState.Player.HasKey { targetItem = "exit" }
K_HasKey ==
    /\ Alive /\ wpc = "k_haskey"
    /\ targetItem' = IF Player.HasKey THEN "exit" ELSE targetItem
    /\ wpc' = "k_sleep"
    /\ KeepGame
    /\ UNCHANGED <<mutexVars, dir, lastLoc, argFrom, argTo, seen, out>>

\* time.Sleep(200 * time.Millisecond)
K_Sleep ==
    /\ Alive /\ wpc = "k_sleep"
    /\ wpc' = "k_newdir"
    /\ KeepGame
    /\ UNCHANGED <<mutexVars, dir, targetItem, lastLoc, argFrom, argTo, seen, out>>

K_NewDir ==
    /\ Alive /\ wpc = "k_newdir"
    /\ dir' = newDirection(dir, lastLoc, Player.Loc)
    /\ wpc' = "k_shoot"
    /\ KeepGame
    /\ UNCHANGED <<mutexVars, targetItem, lastLoc, argFrom, argTo, seen, out>>

\* shoot of the key/exit program: no canSeeItem, and no countdown around it.
\* It ends the tick, and the locals of the loop's body go out of scope.
shoot2 ==
    /\ Alive /\ wpc = "k_shoot"
    /\ IF enemyFresh /\ Enemy = Nil
       THEN Panic /\ UNCHANGED writeVars
       ELSE /\ out' = IF enemyFresh
                      THEN out \o <<face(faceDir(Deref(Enemy), Player.Loc)), fire>>
                      ELSE out
            /\ wpc' = "k_lastX"
            /\ lastLoc' = Loc(0, 0)
            /\ argFrom' = Loc(0, 0)
            /\ argTo' = Loc(0, 0)
            /\ seen' = FALSE
            /\ UNCHANGED <<crashed, dir, targetItem, shotCount, deadline, newAmmo, newFood>>
    /\ UNCHANGED <<gameVars, mutexVars, now, readVars>>

writeLoop2 ==
    \/ K_LastX \/ K_LastY \/ K_Select \/ K_SeeLock \/ canSeeItem2 \/ K_Move \/ K_WanderX
    \/ moveToDir2 \/ K_HasKey \/ K_Sleep \/ K_NewDir \/ shoot2

Init2 ==
    /\ Player = ZeroPlayer
    /\ Exit = Nil /\ MyKey = Nil /\ Floor = {} /\ Walls = {}
    /\ SawEnemy = ZeroTime /\ Enemy = Nil
    /\ Ammo = <<>> /\ Food = <<>>
    /\ floorMutex = "free"
    /\ wallMutex = "free" /\ ammoMutex = "free" /\ foodMutex = "free"
    /\ now = 0 /\ crashed = FALSE
    /\ rpc = "recv" /\ msgParams = <<"">> /\ ri = 0 /\ nRecv = 0
    /\ wpc = "k_lastX" /\ dir = "ne" /\ targetItem = "key" /\ shotCount = shotDelay
    /\ lastLoc = Loc(0, 0) /\ argFrom = Loc(0, 0) /\ argTo = Loc(0, 0) /\ seen = FALSE
    /\ deadline = 0 /\ newAmmo = <<>> /\ newFood = <<>> /\ out = <<>>

Spec2 == Init2 /\ [][readLoop2 \/ writeLoop2 \/ Tick]_vars

(***************************************************************************)
(* canSeeItem on its own: the planner is inside canSeeItem, chasing an     *)
(* enemy, with any two points of the grid as the player's and the enemy's  *)
(* place and any of the wall sets below known.                             *)
(***************************************************************************)
Grid == {Loc(x, y) : x \in -GridMax..GridMax, y \in -GridMax..GridMax}
WallChoices == {Loc(0, 0), Loc(5, -3)}

InitVis ==
    /\ argFrom \in Grid
    /\ argTo \in Grid
    /\ Walls \in SUBSET WallChoices
    /\ Player = [Name |-> "", Loc |-> argFrom, Health |-> 3, Ammo |-> 2, HasKey |-> FALSE]
    /\ Enemy = Ref(argTo)
    /\ SawEnemy = 0
    /\ Exit = Nil /\ MyKey = Nil /\ Floor = {} /\ Ammo = <<>> /\ Food = <<>>
    /\ floorMutex = "free"
    /\ wallMutex = "writeLoop" /\ ammoMutex = "free" /\ foodMutex = "free"
    /\ now = 0 /\ crashed = FALSE
    /\ rpc = "recv" /\ msgParams = <<"">> /\ ri = 0 /\ nRecv = MaxMsgs
    /\ wpc = "see_cs" /\ dir = "ne" /\ targetItem = "enemy" /\ shotCount = shotDelay
    /\ lastLoc = argFrom /\ seen = FALSE /\ deadline = 0
    /\ newAmmo = <<>> /\ newFood = <<>> /\ out = <<>>

SpecVis == InitVis /\ [][canSeeItem]_vars

(***************************************************************************)
(* newDirection on its own: the planner has slept and compares the place   *)
(* it left with the place it is at, for every wander direction.            *)
(***************************************************************************)
Diagonals == {"ne", "se", "sw", "nw"}
Moves == {Loc(x, y) : x \in 0..MoveMax, y \in 0..MoveMax}

InitDir ==
    /\ dir \in Diagonals
    /\ lastLoc \in Moves
    /\ \E l \in Moves : Player = [Name |-> "", Loc |-> l, Health |-> 0, Ammo |-> 0, HasKey |-> FALSE]
    /\ Exit = Nil /\ MyKey = Nil /\ Floor = {} /\ Walls = {}
    /\ SawEnemy = ZeroTime /\ Enemy = Nil
    /\ Ammo = <<>> /\ Food = <<>>
    /\ floorMutex = "free"
    /\ wallMutex = "free" /\ ammoMutex = "free" /\ foodMutex = "free"
    /\ now = 0 /\ crashed = FALSE
    /\ rpc = "recv" /\ msgParams = <<"">> /\ ri = 0 /\ nRecv = MaxMsgs
    /\ wpc = "newdir" /\ targetItem = "ammo" /\ shotCount \in 0..shotDelay
    /\ argFrom = lastLoc /\ argTo = Loc(0, 0) /\ seen = FALSE /\ deadline = 0
    /\ newAmmo = <<>> /\ newFood = <<>>
    /\ out = <<moveTo(dirTarget(dir, lastLoc))>>

SpecDir == InitDir /\ [][W_NewDir]_vars

(***************************************************************************)
(* expireItems on its own: the planner enters expireItems at any clock     *)
(* value, with ammo and food sighted at any earlier times, in the order    *)
(* they were sighted.                                                      *)
(***************************************************************************)
Sightings(t) ==
    {s \in UNION {[1..n -> 0..t] : n \in 0..MaxItems} :
        \A i \in 1..Len(s) - 1 : s[i] <= s[i + 1]}

ItemsSeen(l, s) == [i \in 1..Len(s) |-> Item(l, s[i])]

InitExpiry ==
    /\ now \in 0..ExpiryMaxTime
    /\ \E s \in Sightings(now) : Ammo = ItemsSeen(Loc(5, 5), s)
    /\ \E s \in Sightings(now) : Food = ItemsSeen(Loc(20, 0), s)
    /\ Player = ZeroPlayer
    /\ Exit = Nil /\ MyKey = Nil /\ Floor = {} /\ Walls = {}
    /\ SawEnemy = ZeroTime /\ Enemy = Nil
    /\ floorMutex = "free"
    /\ wallMutex = "free" /\ ammoMutex = "free" /\ foodMutex = "free"
    /\ crashed = FALSE
    /\ rpc = "recv" /\ msgParams = <<"">> /\ ri = 0 /\ nRecv = MaxMsgs
    /\ wpc = "expire" /\ dir \in {"ne", "nw"} /\ targetItem = "ammo" /\ shotCount = shotDelay
    /\ lastLoc = Loc(0, 0) /\ argFrom = Loc(0, 0) /\ argTo = Loc(0, 0) /\ seen = FALSE
    /\ deadline = 0 /\ newAmmo = <<>> /\ newFood = <<>> /\ out = <<>>

expireItems ==
    \/ W_Expire \/ ExpAmmoLock \/ ExpAmmoScan \/ expireAmmo
    \/ ExpFoodLock \/ ExpFoodScan \/ expireFood

SpecExpiry == InitExpiry /\ [][expireItems]_vars

(***************************************************************************)
(* shoot on its own: the countdown has run out, the enemy was sighted just *)
(* now, no wall or one wall is known, and the player and the enemy stand   *)
(* at any two places of a grid with a step of 10.                          *)
(***************************************************************************)
FacePlaces == {Loc(10 * x, 10 * y) : x \in -FaceMax..FaceMax, y \in -FaceMax..FaceMax}

InitShoot ==
    /\ \E l \in FacePlaces : Player = [Name |-> "", Loc |-> l, Health |-> 3, Ammo |-> 2, HasKey |-> FALSE]
    /\ \E e \in FacePlaces : Enemy = Ref(e)
    /\ SawEnemy = 0
    /\ Walls \in {{}, {Loc(5, 5)}}
    /\ Exit = Nil /\ MyKey = Nil /\ Floor = {} /\ Ammo = <<>> /\ Food = <<>>
    /\ floorMutex = "free"
    /\ wallMutex = "free" /\ ammoMutex = "free" /\ foodMutex = "free"
    /\ now = 0 /\ crashed = FALSE
    /\ rpc = "recv" /\ msgParams = <<"">> /\ ri = 0 /\ nRecv = MaxMsgs
    /\ wpc = "shot" /\ dir = "ne" /\ targetItem = "enemy" /\ shotCount = 0
    /\ lastLoc = Player.Loc /\ argFrom = Loc(0, 0) /\ argTo = Loc(0, 0)
    /\ seen = FALSE /\ deadline = 0
    /\ newAmmo = <<>> /\ newFood = <<>> /\ out = <<>>

SpecShoot == InitShoot /\ [][W_Shot \/ W_ShootLock \/ W_ShootSee \/ shoot]_vars

(***************************************************************************)
(* readLoop on its own: the datagrams are decoded while the planner has    *)
(* not started its first tick.                                             *)
(***************************************************************************)
SpecDecode == Init /\ [][readLoop]_vars

(***************************************************************************)
(* Ingest against expiry: the planner enters expireItems at any clock      *)
(* value, with ammo and food sighted at any earlier times, while readLoop  *)
(* has one more datagram to receive.                                       *)
(***************************************************************************)
InitIngest ==
    /\ now \in 0..ExpiryMaxTime
    /\ \E s \in Sightings(now) :
        /\ Ammo = ItemsSeen(Loc(5, 5), s)
        /\ Food = ItemsSeen(Loc(20, 0), s)
    /\ Player = ZeroPlayer
    /\ Exit = Nil /\ MyKey = Nil /\ Floor = {} /\ Walls = {}
    /\ SawEnemy = ZeroTime /\ Enemy = Nil
    /\ floorMutex = "free"
    /\ wallMutex = "free" /\ ammoMutex = "free" /\ foodMutex = "free"
    /\ crashed = FALSE
    /\ rpc = "recv" /\ msgParams = <<"">> /\ ri = 0 /\ nRecv = MaxMsgs - 1
    /\ wpc = "expire" /\ dir = "ne" /\ targetItem = "ammo" /\ shotCount = shotDelay
    /\ lastLoc = Loc(0, 0) /\ argFrom = Loc(0, 0) /\ argTo = Loc(0, 0) /\ seen = FALSE
    /\ deadline = 0 /\ newAmmo = <<>> /\ newFood = <<>> /\ out = <<>>

ingest ==
    \/ RecvNearbyItem \/ AddAmmoLock \/ AddAmmoAppend \/ addAmmo
    \/ AddFoodLock \/ AddFoodAppend \/ addFood

SpecIngest == InitIngest /\ [][ingest \/ expireItems]_vars

(***************************************************************************)
(*                            Properties                                   *)
(***************************************************************************)

(***************************************************************************)
(* The player as it stands between two datagrams: as constructed, as a     *)
(* playerjoined leaves it, or as a complete playerupdate leaves it.        *)
(***************************************************************************)
View(loc, health, ammo) == [Loc |-> loc, Health |-> health, Ammo |-> ammo]

WholePlayers ==
    {View(Loc(0, 0), 0, 0)}
    \cup {View(Loc(Atoi(P(m.Params, 2)), Atoi(P(m.Params, 3))), 0, 0) :
            m \in {n \in Msgs : n.Type = "playerjoined" /\ Len(n.Params) >= 4}}
    \cup {View(Loc(ParseFloatInt(P(m.Params, 0)), ParseFloatInt(P(m.Params, 1))),
               Atoi(P(m.Params, 2)), Atoi(P(m.Params, 3))) :
            m \in {n \in Msgs : n.Type = "playerupdate" /\ Len(n.Params) >= 5}}

\* C1: what a tick has read of the player when it reaches its switch (the ammo
\* count and the health behind targetItem, and lastLoc) is what one whole player
\* holds: no mix of the fields of two.
C1_NoTornRead ==
    wpc = "select" =>
        \E v \in WholePlayers :
            /\ targetOf(v.Ammo, v.Health) = targetItem
            /\ v.Loc = lastLoc

(***************************************************************************)
(* The exact geometry: does the closed segment a-b meet the closed square  *)
(* of side 8 centred on w?                                                 *)
(***************************************************************************)
Cross(o, a, b) == (a.X - o.X) * (b.Y - o.Y) - (a.Y - o.Y) * (b.X - o.X)
Sgn(n) == IF n > 0 THEN 1 ELSE IF n < 0 THEN -1 ELSE 0

Between(p, q, r) ==
    /\ Min(p.X, q.X) <= r.X /\ r.X <= Max(p.X, q.X)
    /\ Min(p.Y, q.Y) <= r.Y /\ r.Y <= Max(p.Y, q.Y)

SegmentsMeet(p1, q1, p2, q2) ==
    LET d1 == Sgn(Cross(p2, q2, p1))
        d2 == Sgn(Cross(p2, q2, q1))
        d3 == Sgn(Cross(p1, q1, p2))
        d4 == Sgn(Cross(p1, q1, q2))
    IN  \/ d1 * d2 < 0 /\ d3 * d4 < 0
        \/ d1 = 0 /\ Between(p2, q2, p1)
        \/ d2 = 0 /\ Between(p2, q2, q1)
        \/ d3 = 0 /\ Between(p1, q1, p2)
        \/ d4 = 0 /\ Between(p1, q1, q2)

InBox(p, w) == Abs(p.X - w.X) <= 4 /\ Abs(p.Y - w.Y) <= 4

SegmentHitsBox(a, b, w) ==
    LET nw == Loc(w.X - 4, w.Y - 4)
        ne == Loc(w.X + 4, w.Y - 4)
        sw == Loc(w.X - 4, w.Y + 4)
        se == Loc(w.X + 4, w.Y + 4)
    IN  \/ InBox(a, w) \/ InBox(b, w)
        \/ SegmentsMeet(a, b, nw, ne) \/ SegmentsMeet(a, b, ne, se)
        \/ SegmentsMeet(a, b, se, sw) \/ SegmentsMeet(a, b, sw, nw)

\* canSeeItem has returned
VisDone == wpc \in {"move", "wanderX"}

\* C2: no false "visible": when the segment from the player to the item meets the
\* box of a known wall, canSeeItem returns false.
C2_NoFalseVisible ==
    (VisDone /\ \E w \in Walls : SegmentHitsBox(argFrom, argTo, w)) => ~seen

\* C3: no false "blocked": when canSeeItem returns false, the segment from the
\* player to the item meets the box of a known wall.
C3_NoFalseBlocked ==
    (VisDone /\ ~seen) => \E w \in Walls : SegmentHitsBox(argFrom, argTo, w)

\* C4: canSeeItem(A, B) = canSeeItem(B, A): the answer canSeeItem gave is the
\* answer for the same walls with the two points swapped.
C4_Symmetric ==
    VisDone => (seen <=> canSeeItemIn(Walls, argTo, argFrom))

\* a blocked line of sight between two different points, neither inside a wall
C4_Witness ==
    /\ VisDone /\ ~seen /\ Walls = WallChoices
    /\ argFrom = Loc(-8, -2) /\ argTo = Loc(8, 3)

\* C5: with no wall known, canSeeItem returns true for any two different points,
\* and the planner goes on to move to the candidate, not to wander.
C5_DefaultVisible ==
    (VisDone /\ Walls = {} /\ argFrom # argTo) => (seen /\ wpc = "move")

C5_Witness ==
    /\ VisDone /\ Walls = {} /\ seen /\ wpc = "move"
    /\ argFrom = Loc(0, 0) /\ argTo = Loc(8, 0)

\* the complete coordinate pairs of a nearbywalls parameter list
Pairs(params) ==
    {Loc(Atoi(params[2 * k - 1]), Atoi(params[2 * k])) : k \in 1..(Len(params) \div 2)}

\* C6: no step removes a wall, and the step that ends a nearbywalls datagram
\* leaves every complete coordinate pair of the datagram among the walls.
C6_WallsMonotonic ==
    [][ /\ Walls \subseteq Walls'
        /\ (rpc = "setWall_cs" /\ rpc' = "recv") => Pairs(msgParams) \subseteq Walls'
      ]_vars

\* both pairs of "nearbywalls:10,0,10,20,30" are known, and nothing else
C6_Witness ==
    /\ rpc = "recv"
    /\ Walls = {Loc(10, 0), Loc(10, 20)}

\* the places an exit datagram, or a nearbyitem datagram, can name
NamedPlaces(type, k) ==
    {Ref(Loc(Atoi(P(m.Params, k)), Atoi(P(m.Params, k + 1)))) :
        m \in {n \in Msgs : n.Type = type /\ Len(n.Params) >= k + 2}}

ExpiredAt(old, new) ==
    /\ \A i \in 1..Len(old) :
        (\E j \in 1..Len(new) : new[j] = old[i]) <=> (now - old[i].Seen < 5)
    /\ \A j \in 1..Len(new) : \E i \in 1..Len(old) : new[j] = old[i]

\* C8: right after expireItems has run at clock value now, an entry last seen at
\* t is still in its collection iff now - t < 5.
C8_Expiry ==
    [][ /\ (wpc = "exp_ammo_wr" /\ wpc' = "exp_food") => ExpiredAt(Ammo, Ammo')
        /\ (wpc = "exp_food_wr" /\ wpc' = "target") => ExpiredAt(Food, Food')
      ]_vars

\* the ammo part has run at 6: the ammo seen at 2 is there; the food part has
\* not run yet, and the food seen at 0 still is
C8_Witness ==
    /\ wpc = "exp_food" /\ now = 6
    /\ Ammo = <<Item(Loc(5, 5), 2)>>
    /\ Food = <<Item(Loc(20, 0), 0), Item(Loc(20, 0), 2)>>

FlipX(d) ==
    CASE d = "ne" -> "nw" [] d = "nw" -> "ne" [] d = "se" -> "sw" [] d = "sw" -> "se"

FlipY(d) ==
    CASE d = "ne" -> "se" [] d = "se" -> "ne" [] d = "nw" -> "sw" [] d = "sw" -> "nw"

\* the player's x (y) changed by less than 1 while the planner slept
XBlocked == Abs(Player.Loc.X - lastLoc.X) < 1
YBlocked == Abs(Player.Loc.Y - lastLoc.Y) < 1

\* C9: when exactly one coordinate is unchanged, the new direction is the old
\* one with that axis's sign flipped and the other kept.
C9_BounceOneAxis ==
    [][ wpc = "newdir" =>
            /\ (XBlocked /\ ~YBlocked) => dir' = FlipX(dir)
            /\ (YBlocked /\ ~XBlocked) => dir' = FlipY(dir)
      ]_vars

\* y was blocked and x was not: the direction is now se, so it was ne
C9_Witness ==
    /\ wpc = "shot" /\ dir = "se"
    /\ YBlocked /\ ~XBlocked

\* C10 as claimed: the direction is kept both when neither coordinate is
\* unchanged and when both are.
C10_KeptWhenBothOrNeither ==
    [][ (wpc = "newdir" /\ (XBlocked <=> YBlocked)) => dir' = dir ]_vars

\* C10 as amended: the direction is kept when neither coordinate is unchanged;
\* when both are, its x sign is flipped, as when x alone is.
C10_BothFlipsX ==
    [][ wpc = "newdir" =>
            /\ (~XBlocked /\ ~YBlocked) => dir' = dir
            /\ (XBlocked /\ YBlocked) => dir' = FlipX(dir) /\ dir' # dir
      ]_vars

\* the player did not move at all: the direction is now sw, so it was se
C10_Witness ==
    /\ wpc = "shot" /\ dir = "sw"
    /\ XBlocked /\ YBlocked

\* C11: the category of a tick is chosen from the player as the tick reads it,
\* and from nothing else: an ammo count of 0 gives "ammo" whatever the health;
\* otherwise the health is read, below 2 gives "food" and anything else "enemy".
\* The category of the tick before plays no part.
C11_TargetPriority ==
    [][ /\ (wpc = "target" /\ wpc' # wpc) =>
                IF Player.Ammo = 0
                THEN targetItem' = "ammo" /\ wpc' = "lastX"
                ELSE wpc' = "health"
        /\ (wpc = "health" /\ wpc' # wpc) =>
                /\ targetItem' = (IF Player.Health < 2 THEN "food" ELSE "enemy")
                /\ wpc' = "lastX"
        /\ targetItem' # targetItem => wpc \in {"target", "health"}
      ]_vars

\* food is chosen although a fresh enemy sighting is on record
C11_Witness ==
    /\ wpc = "lastX" /\ targetItem = "food"
    /\ Player.Ammo > 0 /\ Player.Health < 2
    /\ Enemy # Nil /\ enemyFresh

\* C12: a tick that chases the enemy sends the moveto to the recorded enemy
\* place only while the last sighting is less than 1 s old.
C12_StaleNotPursued ==
    [][ (wpc = "move" /\ targetItem = "enemy" /\ wpc' = "sleep") => enemyFresh ]_vars

\* the compass name of a difference (dx, dy), a larger y being south
Compass(dx, dy) ==
    (IF dy > 0 THEN "s" ELSE IF dy < 0 THEN "n" ELSE "")
        \o (IF dx > 0 THEN "e" ELSE IF dx < 0 THEN "w" ELSE "")

\* the direction the claim gives for an enemy e and a player p
Facing(e, p) ==
    IF e.X = p.X THEN (IF e.Y > p.Y THEN "s" ELSE "n")
    ELSE Compass(e.X - p.X, e.Y - p.Y)

\* C13: the facedirection shoot sends names the compass direction from the
\* player to the enemy: a cardinal one exactly when they share an x or a y,
\* else the diagonal of the two signs, with a larger y to the south.
C13_Facing ==
    \A i \in 1..Len(out) :
        out[i].cmd = "facedirection" =>
            /\ out[i].dir = Facing(Deref(Enemy), Player.Loc)
            /\ out[i].dir \in {"n", "s", "e", "w"}
                  <=> (Deref(Enemy).X = Player.Loc.X \/ Deref(Enemy).Y = Player.Loc.Y)

\* the enemy at (10,10) and the player at (0,0): shoot faced se
C13_Witness ==
    /\ wpc = "expire"
    /\ Player.Loc = Loc(0, 0) /\ Enemy = Ref(Loc(10, 10))
    /\ out = <<face("se"), fire>>

\* a fire: command is among the commands of the current tick
HasFire(cmds) == \E i \in 1..Len(cmds) : cmds[i].cmd = "fire"

\* the planner is inside shoot
InShoot == wpc \in {"shoot_see", "shoot_cs", "shoot_fire"}

\* C14: the countdown stays in 0..shotDelay.  A tick that finds it non-zero
\* takes one off and does not enter shoot; a tick that finds it zero enters
\* shoot and leaves with the countdown back at shotDelay; nothing else changes
\* it.  A fire: is sent only from inside shoot, so with the countdown at zero and
\* shotDelay right after: the shotDelay ticks that follow a fire: each find the
\* countdown non-zero and send none.
C14_FireRate ==
    /\ [](shotCount \in 0..shotDelay)
    /\ [](InShoot => shotCount = 0)
    /\ [](HasFire(out) => shotCount = shotDelay)
    /\ [][ /\ (wpc = "shot" /\ shotCount # 0 /\ wpc' # wpc) =>
                /\ shotCount' = shotCount - 1
                /\ wpc' = "expire"
                /\ out' = out
           /\ (wpc = "shot" /\ shotCount = 0 /\ wpc' # wpc) =>
                \/ wpc' = "shoot_see" /\ shotCount' = 0
                \/ wpc' = "expire" /\ shotCount' = shotDelay
           /\ (InShoot /\ wpc' = "expire") => shotCount' = shotDelay
           /\ (HasFire(out') /\ ~HasFire(out)) => (wpc = "shoot_fire" /\ wpc' = "expire")
           /\ shotCount' # shotCount => (wpc' = "expire" /\ (wpc = "shot" \/ InShoot))
         ]_vars

\* a tick has fired, and the countdown is back at shotDelay
C14_Witness ==
    /\ wpc = "expire" /\ HasFire(out)
    /\ shotCount = shotDelay

\* C15: shoot sends fire: only after it found, on entry, the sighting less
\* than 1 s old and then canSeeItem(player, enemy) true; and every fire: of a
\* tick comes right after a facedirection of the same tick, with no moveto in
\* between.
C15_CombatGate ==
    /\ [](\A i \in 1..Len(out) :
            out[i].cmd = "fire" => (i > 1 /\ out[i - 1].cmd = "facedirection"))
    /\ [][ /\ (wpc' = "shoot_see" /\ wpc # wpc') =>
                /\ wpc = "shot" /\ enemyFresh /\ Enemy # Nil
                /\ argFrom' = Player.Loc /\ argTo' = Deref(Enemy)
           /\ (wpc' = "shoot_cs" /\ wpc # wpc') =>
                (wpc = "shoot_see" /\ UNCHANGED <<argFrom, argTo>>)
           /\ (wpc' = "shoot_fire" /\ wpc # wpc') =>
                /\ wpc = "shoot_cs"
                /\ \A w \in Walls : ~intersects(argFrom, argTo, w.X, w.Y)
           /\ (HasFire(out') /\ ~HasFire(out)) =>
                /\ wpc = "shoot_fire"
                /\ Len(out') = Len(out) + 2
           /\ (wpc = "shoot_fire" /\ wpc' # wpc) => HasFire(out')
         ]_vars

\* the tick's moveto, then the facedirection, then the fire:
C15_Witness ==
    /\ Len(out) = 3
    /\ out[1].cmd = "moveto" /\ out[2].cmd = "facedirection" /\ out[3].cmd = "fire"
    /\ Enemy = Ref(Loc(20, 0)) /\ out[2].dir = "e"

\* C16: no datagram makes readLoop abort: whatever it receives, it stays
\* running.
C16_DecodeSoft == ~crashed

\* every entry of old that is still less than 5 s old is an entry of new
FreshKept(old, new) ==
    \A i \in 1..Len(old) :
        old[i].Seen > now - ExpireAfter => \E j \in 1..Len(new) : new[j] = old[i]

\* C17: addAmmo and the ammo part of expireItems are never inside their
\* critical sections together, nor addFood and the food part; and no step of
\* either drops an entry that is still less than 5 s old, so an item added
\* during an expiry run is there when both are done.
C17_NoSightingLost ==
    /\ [](~(rpc \in {"addAmmo_cs", "addAmmo_st"} /\ wpc \in {"exp_ammo_cs", "exp_ammo_wr"}))
    /\ [](~(rpc \in {"addFood_cs", "addFood_st"} /\ wpc \in {"exp_food_cs", "exp_food_wr"}))
    /\ [](ammoMutex = "readLoop" <=> rpc \in {"addAmmo_cs", "addAmmo_st"})
    /\ [](ammoMutex = "writeLoop" <=> wpc \in {"exp_ammo_cs", "exp_ammo_wr"})
    /\ [](foodMutex = "readLoop" <=> rpc \in {"addFood_cs", "addFood_st"})
    /\ [](foodMutex = "writeLoop" <=> wpc \in {"exp_food_cs", "exp_food_wr"})
    /\ [][FreshKept(Ammo, Ammo') /\ FreshKept(Food, Food')]_vars

\* expireItems ran at 6 and removed what was seen before 2, ammo and food;
\* the ammo that readLoop added meanwhile is there
C17_Witness ==
    /\ wpc = "target" /\ rpc = "recv" /\ nRecv = MaxMsgs
    /\ now = 6
    /\ Ammo = <<Item(Loc(5, 5), 6)>>
    /\ Food = <<>>

\* the number of moveto commands among the commands of the current tick
MoveCount(cmds) == Cardinality({i \in 1..Len(cmds) : cmds[i].cmd = "moveto"})

\* the positions of a tick before its moveto is sent
BeforeMove ==
    wpc \in {"target", "health", "lastX", "lastY", "select", "see", "see_cs",
             "move", "wanderX", "wanderY"}

\* the place the selected category offers: the first ammo, the first food, or
\* the recorded enemy
Offered ==
    CASE targetItem = "ammo" -> IF Ammo = <<>> THEN Nil ELSE Ref(Ammo[1].Loc)
      [] targetItem = "food" -> IF Food = <<>> THEN Nil ELSE Ref(Food[1].Loc)
      [] targetItem = "enemy" -> Enemy
      [] OTHER -> Nil

\* the signs of a wander direction: ne +x -y, se +x +y, sw -x +y, nw -x -y
SignX(d) == IF d \in {"ne", "se"} THEN 1 ELSE -1
SignY(d) == IF d \in {"se", "sw"} THEN 1 ELSE -1

\* C18: a tick sends exactly one moveto.  It goes to the place the category
\* offers when there is one and canSeeItem(player, place) is true; otherwise it
\* goes to the player's place as moveToDir reads it (x, then y) moved by 10 on
\* each axis in the wander direction, whatever was sent in earlier ticks.
C18_MoveDecision ==
    /\ [](MoveCount(out) = IF BeforeMove THEN 0 ELSE 1)
    /\ [][ /\ (wpc = "select" /\ wpc' # wpc) =>
                IF Offered # Nil
                THEN wpc' = "see" /\ argFrom' = Player.Loc /\ argTo' = Deref(Offered)
                ELSE wpc' = "wanderX"
           /\ (wpc = "see_cs" /\ wpc' # wpc) =>
                IF \A w \in Walls : ~intersects(argFrom, argTo, w.X, w.Y)
                THEN wpc' = "move"
                ELSE wpc' = "wanderX"
           /\ (wpc = "move" /\ wpc' # wpc) =>
                /\ Offered # Nil
                /\ out' = <<Cmd("moveto", Deref(Offered).X, Deref(Offered).Y, "")>>
           /\ (wpc = "wanderX" /\ wpc' # wpc) =>
                (argFrom'.X = Player.Loc.X /\ wpc' = "wanderY")
           /\ (wpc = "wanderY" /\ wpc' # wpc) =>
                out' = <<Cmd("moveto", argFrom.X + 10 * SignX(dir),
                             Player.Loc.Y + 10 * SignY(dir), "")>>
         ]_vars

\* the player is at (20,0) and no enemy is known: the wander direction is nw
\* by now, and the moveto names (10,-10)
C18_Witness ==
    /\ wpc = "sleep" /\ targetItem = "enemy" /\ Enemy = Nil
    /\ Player.Loc = Loc(20, 0) /\ dir = "nw"
    /\ out = <<moveTo(Loc(10, -10))>>

\* C19: in the key/exit program, when a tick reads the has-key flag, the
\* category it acted on is "exit" if the flag is set and "key" if it is not.
C19_KeyThenExit ==
    [][ (wpc = "k_haskey" /\ wpc' # wpc) => (targetItem = "exit" <=> Player.HasKey) ]_vars

\* C20: whenever the planner enters shoot (the countdown is at zero) and the
\* sighting is less than 1 s old, the enemy place is set.
C20_EnemySetWhenFresh ==
    (wpc = "shot" /\ shotCount = 0 /\ enemyFresh) => Enemy # Nil

(***************************************************************************)
(* Progress.  The two loops are goroutines of one process: the scheduler   *)
(* runs each of them again and again while it can take a step.             *)
(***************************************************************************)
FairSpec == Spec /\ WF_vars(readLoop) /\ WF_vars(writeLoop)

\* the mutexes of wallMutex, ammoMutex, foodMutex that loop t holds
HeldBy(t) ==
    {m \in {"wall", "ammo", "food"} :
        (CASE m = "wall" -> wallMutex [] m = "ammo" -> ammoMutex [] OTHER -> foodMutex) = t}

\* the positions of writeLoop inside canSeeItem's and expireItems' locked parts
W_Locked == {"see_cs", "shoot_cs", "exp_ammo_cs", "exp_ammo_wr", "exp_food_cs", "exp_food_wr"}

\* the positions of readLoop inside setWall's, addAmmo's and addFood's locked parts
R_Locked == {"setWall_cs", "addAmmo_cs", "addAmmo_st", "addFood_cs", "addFood_st"}

\* neither loop holds two mutexes, readLoop holds none between two messages,
\* writeLoop holds none outside canSeeItem and expireItems (its sleep
\* included), and a running loop that waits for a mutex waits for the other
\* loop, which can take a step
LockDiscipline ==
    /\ Cardinality(HeldBy("readLoop")) <= 1
    /\ Cardinality(HeldBy("writeLoop")) <= 1
    /\ (HeldBy("readLoop") # {}) <=> (rpc \in R_Locked)
    /\ (HeldBy("writeLoop") # {}) <=> (wpc \in W_Locked)
    /\ wpc = "sleep" => HeldBy("writeLoop") = {}
    /\ Alive => ENABLED writeLoop \/ ENABLED readLoop

\* C21: under fair scheduling every started planning tick reaches its
\* expireItems step, and every received message is applied: readLoop is back
\* at its read of the socket with the message's effects stored.
C21_Progress ==
    /\ (wpc = "lastX") ~> (wpc = "expire")
    /\ (rpc # "recv") ~> (rpc = "recv")

\* the first entry of the collection the tick's category reads
First == IF targetItem = "ammo" THEN Ammo[1] ELSE Food[1]

\* C22: when a tick finds its collection (ammo or food) not empty, the entry
\* at index 0 is there for both reads of the tick: the argument of canSeeItem
\* is the place of the first entry, and the moveto that follows names the same
\* place.
C22_CheckThenIndex ==
    [][ /\ (targetItem \in {"ammo", "food"} /\ wpc = "select" /\ wpc' = "see") =>
                argTo' = First.Loc
        /\ (targetItem \in {"ammo", "food"} /\ wpc = "move" /\ wpc' = "sleep") =>
                out' = <<moveTo(argTo)>> /\ argTo = First.Loc
      ]_vars

=============================================================================
